---- MODULE Spec2Model ----
(***************************************************************************)
(* Stream.fun: the stream-subscription hook (useStreamSubscription), the   *)
(* accrual arithmetic of stream-utils (calculateStreamedAmount) and the    *)
(* subscriptions table it persists to; the log history (useSessionLogs,    *)
(* useLazorWallet); and the wallet session with its deferred log entries   *)
(* (useLazorAuth, useLazorWallet, Dashboard, CreatorCard).                 *)
(*                                                                         *)
(* Units.  Instants are wall-clock milliseconds (Date.getTime()).  A flow  *)
(* rate r stands for r * 0.00001 USDC per second, so that                  *)
(*   (elapsed ms / 1000) * (r * 0.00001)  =  elapsed ms * r * 0.00000001   *)
(* and an amount a stands for a * 0.00000001 USDC.  Amounts and rates are  *)
(* exact (the rounding of IEEE doubles is not modelled).                   *)
(***************************************************************************)
EXTENDS Integers, Sequences, FiniteSets, TLC

VARIABLES
    walletAddress,  \* the hook's parameter: a wallet or NoWallet (null)
    subscriptions,  \* useState<StreamSubscription[]>: the tracked set, an array
    activeStreams,  \* useState<Map<string, number>>: creator id -> accrued amount
    totalStreaming, \* the value of line 177 in the latest render
    isLoading,      \* useState(false)
    timerArmed,     \* an interval created at line 100 is armed and not yet cleared
    timerSubs,      \* the subscriptions array the armed interval's updateStreams closes over
    effectPending,  \* subscriptions changed and the tick effect (79-107) has not re-run yet
    now,            \* the wall clock read by new Date()
    store,          \* table public.subscriptions: <<user_wallet, creator_id>> -> row
    ops,            \* the store requests in flight, one per slot
    lastEvent,      \* history: the last operation of the hook's interface that ran
    calls,          \* history: how many times the hook's interface was used
    \* --- the log history (useSessionLogs, useLazorWallet)
    logHook,        \* the hook that keeps the history
    maxLogs,        \* the maxLogs parameter of useSessionLogs
    logs,           \* useState<string[]>: the history, oldest entry first
    serial,         \* history: how many entries were appended so far
    sinceClear,     \* history: how many entries were appended since the last clear
    \* --- the wallet session (useLazorAuth, useLazorWallet, Dashboard)
    mounted,        \* the page is loaded and its hooks are mounted
    state,          \* useState of the wallet hook: isConnected, isConnecting, address, error
    storage,        \* localStorage: the item under STORAGE_KEYS.WALLET
    prompts,        \* connect calls waiting for navigator.credentials.create
    timeouts,       \* the setTimeout callbacks that are scheduled and have not run
    awaiting,       \* handleSubscribe calls waiting for subscribe to settle
    streaming,      \* Dashboard's heartbeat interval is armed
    seqs,           \* history: how many log sequences were started
    \* --- the paymaster simulation (usePaymasterSimulation)
    isSimulating,   \* useState(false)
    lastSimulation, \* useState<SimulationResult | null>(null): <<>> or <<result>>
    simPending,     \* the simulateTransaction calls waiting at their await
    simCalls,       \* history: how many times simulateTransaction was called
    simReturned     \* history: the request and the result of the call that returned last

streamVars == <<walletAddress, subscriptions, activeStreams, totalStreaming,
                isLoading, timerArmed, timerSubs, effectPending, store, ops,
                lastEvent, calls>>
logVars == <<logHook, maxLogs, logs, serial, sinceClear>>
sessionVars == <<mounted, state, storage, prompts, timeouts, awaiting, streaming,
                 seqs>>

simVars == <<isSimulating, lastSimulation, simPending, simCalls, simReturned>>

vars == <<streamVars, now, logVars, sessionVars, simVars>>

\* ------------------------------------------------------------------ bounds

CreatorOrder == <<"c1", "c2">>
Creators == {CreatorOrder[i] : i \in DOMAIN CreatorOrder}
Wallets == {"w1", "w2"}
NoWallet == "null"

\* The clock is observed at multiples of ClockStep ms, up to MaxClock steps.
ClockStep == 50
MaxClock == 1
\* Uses of the hook's interface (wallet changes, subscribe, unsubscribe) in a
\* run; the k-th use sends its store request in slot k, so as many requests
\* may be in flight at once.
MaxCalls == 2

Times == {k * ClockStep : k \in 0..MaxClock}

\* The flowRate argument of subscribe: a number, or left out.
Given(r) == [given |-> TRUE, value |-> r]
Omitted == [given |-> FALSE, value |-> 0]
FlowRateArgs == {Given(-1), Given(0), Omitted}

\* ------------------------------------------------------- stream-utils.ts

\* export const DEFAULT_FLOW_RATE = 0.00001 (one rate unit).
DEFAULT_FLOW_RATE == 1

\* calculateStreamedAmount(startTime, flowRate): t is the instant new Date()
\* returns inside it.
calculateStreamedAmount(startTime, flowRate, t) ==
    (t - startTime) * flowRate

\* --------------------------------------------------- subscriptions table

\* total_streamed DECIMAL(20, 6): six decimal places are 100 amount units.
TotalStreamedScale == 100

Abs(x) == IF x < 0 THEN -x ELSE x

\* Assignment to a numeric(20,6) column rounds to the column's scale, ties
\* away from zero.
Numeric6(x) ==
    LET q == ((2 * Abs(x) + TotalStreamedScale) \div (2 * TotalStreamedScale))
             * TotalStreamedScale
    IN  IF x < 0 THEN -q ELSE q

Key(w, c) == <<w, c>>

\* Faulty variant: the read returns the rows without their settled amounts.
ActiveRowsOfUnsettled(st, w) ==
    LET hit(c) == Key(w, c) \in DOMAIN st /\ st[Key(w, c)].is_active
        pick == SelectSeq(CreatorOrder, hit)
    IN  [i \in DOMAIN pick |-> [st[Key(w, pick[i])] EXCEPT !.total_streamed = 0]]

\* The rows a read with .eq('user_wallet', w).eq('is_active', true) returns.
ActiveRowsOf(st, w) ==
    LET hit(c) == Key(w, c) \in DOMAIN st /\ st[Key(w, c)].is_active
        pick == SelectSeq(CreatorOrder, hit)
    IN  [i \in DOMAIN pick |-> st[Key(w, pick[i])]]

\* Rows that earlier sessions left in the table before the hook mounts: none,
\* or an active subscription of w1 to c1 at the default rate with a settled
\* amount of 0.000002, started at this device's instant 0 or, written under a
\* clock that runs ahead of this device's, one step after it; or that
\* subscription after an unsubscribe has settled it.
InitialStores ==
    { [k \in {} |-> 0] } \cup
    { [k \in {Key("w1", "c1")} |->
         [user_wallet |-> "w1", creator_id |-> "c1", started_at |-> t,
          flow_rate |-> DEFAULT_FLOW_RATE, is_active |-> TRUE,
          total_streamed |-> 2 * TotalStreamedScale]]
      : t \in {0, ClockStep} } \cup
    { [k \in {Key("w1", "c1")} |->
         [user_wallet |-> "w1", creator_id |-> "c1", started_at |-> 0,
          flow_rate |-> DEFAULT_FLOW_RATE, is_active |-> FALSE,
          total_streamed |-> 2 * TotalStreamedScale]] }

\* --------------------------------------------------------------- helpers

EmptyMap == [c \in {} |-> 0]
NoData == <<>>

Idle == [kind |-> "idle", wallet |-> NoWallet, creator |-> "-", arg |-> Omitted,
         at |-> 0, payload |-> NoData, phase |-> "idle", data |-> NoData]

Slots == 1..MaxCalls
\* The slot of the request the next use of the interface sends.
NextSlot == calls + 1

TrackedCreators(subs) == {subs[i].creator_id : i \in DOMAIN subs}

\* prev.filter(s => s.creator_id !== creatorId)
FilterOut(subs, c) ==
    LET keep(s) == s.creator_id # c IN SelectSeq(subs, keep)

\* Faulty variant: the updater appends without filtering the creator out.
ActivateSubAppendOnly(prev, c, data) == Append(prev, data)

\* subscribe's updater, lines 130-133: filter the creator out, append data.
ActivateSub(prev, c, data) == Append(FilterOut(prev, c), data)

\* Faulty variant: the updater copies the map and deletes nothing.
MapDeleteNothing(m, c) == m

\* unsubscribe's updater of the snapshot, lines 158-162: copy and delete.
MapDelete(m, c) == [k \in (DOMAIN m) \ {c} |-> m[k]]

\* activeStreams.get(creatorId) || 0
GetOrZero(m, c) == IF c \in DOMAIN m /\ m[c] # 0 THEN m[c] ELSE 0

getStreamAmount(c) == GetOrZero(activeStreams, c)

\* updateStreams, lines 85-97: one Map.set per active subscription, in array
\* order, so the last active subscription of a creator decides its entry.
LastActive(subs, c) ==
    CHOOSE i \in DOMAIN subs :
        /\ subs[i].creator_id = c /\ subs[i].is_active
        /\ \A j \in DOMAIN subs :
              (j > i) => ~(subs[j].creator_id = c /\ subs[j].is_active)

\* Faulty variant: updateStreams leaves the settled amount out of the entry.
updateStreamsNoSettled(subs, t) ==
    [c \in {subs[i].creator_id : i \in {j \in DOMAIN subs : subs[j].is_active}} |->
        LET sub == subs[LastActive(subs, c)]
        IN  calculateStreamedAmount(sub.started_at, sub.flow_rate, t)]

updateStreams(subs, t) ==
    [c \in {subs[i].creator_id : i \in {j \in DOMAIN subs : subs[j].is_active}} |->
        LET sub == subs[LastActive(subs, c)]
        IN  calculateStreamedAmount(sub.started_at, sub.flow_rate, t)
                + sub.total_streamed]

\* Array.from(activeStreams.values()).reduce((sum, val) => sum + val, 0)
RECURSIVE SumValues(_, _)
SumValues(m, keys) ==
    IF keys = {} THEN 0
    ELSE LET k == CHOOSE x \in keys : TRUE
         IN  m[k] + SumValues(m, keys \ {k})

\* Faulty variant: the total counts the entries instead of adding them up.
TotalOfSize(m) == Cardinality(DOMAIN m)

TotalOf(m) == SumValues(m, DOMAIN m)

\* Faulty variant: the flowRate parameter has no default value.
UpsertPayloadNoDefault(w, c, arg, t) ==
    [user_wallet |-> w, creator_id |-> c, flow_rate |-> arg.value,
     is_active |-> TRUE, started_at |-> t, total_streamed |-> 0]

\* The object subscribe upserts, lines 115-122.
UpsertPayload(w, c, arg, t) ==
    [user_wallet |-> w, creator_id |-> c,
     flow_rate |-> IF arg.given THEN arg.value ELSE DEFAULT_FLOW_RATE,
     is_active |-> TRUE, started_at |-> t, total_streamed |-> 0]

\* Faulty variant: the update clears the flag and settles nothing.
UpdatePayloadZero(amount) == [is_active |-> FALSE, total_streamed |-> 0]

\* The object unsubscribe sends as the update, lines 148-151.
UpdatePayload(amount) == [is_active |-> FALSE, total_streamed |-> amount]

\* Faulty variant: the error of the store's answer is not looked at.
ThrowsNever(phase) == FALSE

\* if (error) throw error, lines 66, 128 and 155: the rest of the try block
\* is skipped when the store answered with an error.
Throws(phase) == phase = "error"

Event(kind, c, detail) == [kind |-> kind, creator |-> c, detail |-> detail]

\* History of a subscribe: the settled amount of the record of c that it
\* replaces in subs, or -1 when subs tracks no record of c.
ReplacedSettled(subs, c) ==
    IF c \in TrackedCreators(subs)
    THEN subs[CHOOSE j \in DOMAIN subs : subs[j].creator_id = c].total_streamed
    ELSE -1

\* The log hooks are not part of this run.
NoLogHook ==
    /\ logHook = "-"
    /\ maxLogs = 0
    /\ logs = <<>>
    /\ serial = 0
    /\ sinceClear = 0

\* The wallet session is not part of this run.
NoSession ==
    /\ mounted = FALSE
    /\ state = [isConnected |-> FALSE, isConnecting |-> FALSE,
                address |-> NoWallet, error |-> "null"]
    /\ storage = "null"
    /\ prompts = 0
    /\ timeouts = {}
    /\ awaiting = {}
    /\ streaming = FALSE
    /\ seqs = 0

\* The paymaster simulation is not part of this run.
NoSimulation ==
    /\ isSimulating = FALSE
    /\ lastSimulation = <<>>
    /\ simPending = {}
    /\ simCalls = 0
    /\ simReturned = <<>>

\* ------------------------------------------------------------------ Init

Init ==
    /\ walletAddress = NoWallet
    /\ subscriptions = <<>>
    /\ activeStreams = EmptyMap
    /\ totalStreaming = 0
    /\ isLoading = FALSE
    /\ timerArmed = FALSE
    /\ timerSubs = <<>>
    /\ effectPending = FALSE
    /\ now = 0
    /\ store \in InitialStores
    /\ ops = [i \in Slots |-> Idle]
    /\ lastEvent = Event("mount", "-", 0)
    /\ calls = 0
    /\ NoLogHook
    /\ NoSession
    /\ NoSimulation

\* --------------------------------------------------------------- actions

\* The wall clock advances.
AdvanceClock ==
    /\ now + ClockStep <= MaxClock * ClockStep
    /\ now' = now + ClockStep
    /\ UNCHANGED <<calls, walletAddress, subscriptions, activeStreams, totalStreaming,
                   isLoading, timerArmed, timerSubs, effectPending, store, ops,
                   lastEvent>>
    /\ UNCHANGED <<logVars, sessionVars, simVars>>

\* walletAddress becomes null: the fetch effect's first branch, lines 51-55.
WalletCleared ==
    /\ calls < MaxCalls
    /\ calls' = calls + 1
    /\ walletAddress # NoWallet
    /\ walletAddress' = NoWallet
    /\ subscriptions' = <<>>
    /\ activeStreams' = EmptyMap
    /\ totalStreaming' = TotalOf(activeStreams')
    /\ effectPending' = TRUE
    /\ lastEvent' = Event("wallet", "-", 0)
    /\ UNCHANGED <<isLoading, timerArmed, timerSubs, now, store, ops>>
    /\ UNCHANGED <<logVars, sessionVars, simVars>>

\* walletAddress becomes w: the fetch effect calls fetchSubscriptions, which
\* sets isLoading and sends the read, lines 57-64 and 75.
WalletSet(w) ==
    /\ calls < MaxCalls
    /\ calls' = calls + 1
    /\ walletAddress # w
    /\ walletAddress' = w
    /\ isLoading' = TRUE
    /\ ops' = [ops EXCEPT ![NextSlot] =
                 [kind |-> "fetch", wallet |-> w, creator |-> "-", arg |-> Omitted,
                  at |-> 0, payload |-> NoData, phase |-> "sent",
                  data |-> NoData]]
    /\ lastEvent' = Event("wallet", "-", 0)
    /\ UNCHANGED <<subscriptions, activeStreams, totalStreaming, timerArmed,
                   timerSubs, effectPending, now, store>>
    /\ UNCHANGED <<logVars, sessionVars, simVars>>

\* subscribe(creatorId, flowRate) up to its await, lines 109-126.
SubscribeCall(c, arg) ==
    /\ calls < MaxCalls
    /\ calls' = calls + 1
    /\ walletAddress # NoWallet
    /\ ops' = [ops EXCEPT ![NextSlot] =
                 [kind |-> "subscribe", wallet |-> walletAddress, creator |-> c,
                  arg |-> arg, at |-> now,
                  payload |-> UpsertPayload(walletAddress, c, arg, now),
                  phase |-> "sent", data |-> NoData]]
    /\ lastEvent' = Event("subscribe_call", c, 0)
    /\ UNCHANGED <<walletAddress, subscriptions, activeStreams, totalStreaming,
                   isLoading, timerArmed, timerSubs, effectPending, now, store>>
    /\ UNCHANGED <<logVars, sessionVars, simVars>>

\* unsubscribe(creatorId) up to its await, lines 140-153.
UnsubscribeCall(c) ==
    /\ calls < MaxCalls
    /\ calls' = calls + 1
    /\ walletAddress # NoWallet
    /\ LET currentAmount == GetOrZero(activeStreams, c)
       IN  ops' = [ops EXCEPT ![NextSlot] =
                 [kind |-> "unsubscribe", wallet |-> walletAddress,
                  creator |-> c, arg |-> Omitted, at |-> 0,
                  payload |-> UpdatePayload(currentAmount),
                  phase |-> "sent", data |-> NoData]]
    /\ lastEvent' = Event("unsubscribe_call", c, 0)
    /\ UNCHANGED <<walletAddress, subscriptions, activeStreams, totalStreaming,
                   isLoading, timerArmed, timerSubs, effectPending, now, store>>
    /\ UNCHANGED <<logVars, sessionVars, simVars>>

\* The store serves the read of fetchSubscriptions.
StoreSelect(i) ==
    /\ ops[i].kind = "fetch" /\ ops[i].phase = "sent"
    /\ ops' = [ops EXCEPT ![i].phase = "ok",
                          ![i].data = ActiveRowsOf(store, ops[i].wallet)]
    /\ UNCHANGED <<calls, walletAddress, subscriptions, activeStreams, totalStreaming,
                   isLoading, timerArmed, timerSubs, effectPending, now, store,
                   lastEvent>>
    /\ UNCHANGED <<logVars, sessionVars, simVars>>

\* The store serves subscribe's upsert on (user_wallet, creator_id) and
\* returns the row (.select().single()).
StoreUpsert(i) ==
    /\ ops[i].kind = "subscribe" /\ ops[i].phase = "sent"
    /\ LET k == Key(ops[i].wallet, ops[i].creator)
           row == ops[i].payload
       IN  /\ store' = [x \in (DOMAIN store) \cup {k} |->
                          IF x = k THEN row ELSE store[x]]
           /\ ops' = [ops EXCEPT ![i].phase = "ok", ![i].data = row]
    /\ UNCHANGED <<calls, walletAddress, subscriptions, activeStreams, totalStreaming,
                   isLoading, timerArmed, timerSubs, effectPending, now,
                   lastEvent>>
    /\ UNCHANGED <<logVars, sessionVars, simVars>>

\* The store serves unsubscribe's update of the rows matching
\* (user_wallet, creator_id); no row matching is no error.
StoreUpdate(i) ==
    /\ ops[i].kind = "unsubscribe" /\ ops[i].phase = "sent"
    /\ LET k == Key(ops[i].wallet, ops[i].creator)
       IN  store' = IF k \in DOMAIN store
                    THEN [store EXCEPT
                            ![k].is_active = ops[i].payload.is_active,
                            ![k].total_streamed =
                                Numeric6(ops[i].payload.total_streamed)]
                    ELSE store
    /\ ops' = [ops EXCEPT ![i].phase = "ok"]
    /\ UNCHANGED <<calls, walletAddress, subscriptions, activeStreams, totalStreaming,
                   isLoading, timerArmed, timerSubs, effectPending, now,
                   lastEvent>>
    /\ UNCHANGED <<logVars, sessionVars, simVars>>

\* The store is unreachable or rejects the request: { error } is returned.
StoreFail(i) ==
    /\ ops[i].phase = "sent"
    /\ ops' = [ops EXCEPT ![i].phase = "error"]
    /\ UNCHANGED <<calls, walletAddress, subscriptions, activeStreams, totalStreaming,
                   isLoading, timerArmed, timerSubs, effectPending, now, store,
                   lastEvent>>
    /\ UNCHANGED <<logVars, sessionVars, simVars>>

\* fetchSubscriptions after its await, lines 66-72.  The catch block only
\* logs: the event load_failed reaches no caller.
FetchResolve(i) ==
    /\ ops[i].kind = "fetch" /\ ops[i].phase \in {"ok", "error"}
    /\ IF ~Throws(ops[i].phase)
       THEN /\ subscriptions' = ops[i].data
            /\ effectPending' = TRUE
            /\ lastEvent' = Event("loaded", "-", 0)
       ELSE /\ UNCHANGED <<subscriptions, effectPending>>
            /\ lastEvent' = Event("load_failed", "-", 0)
    /\ isLoading' = FALSE
    /\ ops' = [ops EXCEPT ![i] = Idle]
    /\ UNCHANGED <<calls, walletAddress, activeStreams, totalStreaming, timerArmed,
                   timerSubs, now, store>>
    /\ UNCHANGED <<logVars, sessionVars, simVars>>

\* subscribe after its await, lines 128-137.  The event subscribe_failed is
\* the catch block's throw error (line 136): the promise rejects.
SubscribeResolve(i) ==
    /\ ops[i].kind = "subscribe" /\ ops[i].phase \in {"ok", "error"}
    /\ IF ~Throws(ops[i].phase)
       THEN /\ subscriptions' =
                  ActivateSub(subscriptions, ops[i].creator, ops[i].data)
            /\ effectPending' = TRUE
            /\ lastEvent' = Event("subscribed", ops[i].creator,
                                  ReplacedSettled(subscriptions, ops[i].creator))
       ELSE /\ UNCHANGED <<subscriptions, effectPending>>
            /\ lastEvent' = Event("subscribe_failed", ops[i].creator, 0)
    /\ ops' = [ops EXCEPT ![i] = Idle]
    /\ UNCHANGED <<calls, walletAddress, activeStreams, totalStreaming, isLoading,
                   timerArmed, timerSubs, now, store>>
    /\ UNCHANGED <<logVars, sessionVars, simVars>>

\* unsubscribe after its await, lines 155-166.  The event unsubscribe_failed
\* is the catch block's throw error (line 165): the promise rejects.
UnsubscribeResolve(i) ==
    /\ ops[i].kind = "unsubscribe" /\ ops[i].phase \in {"ok", "error"}
    /\ IF ~Throws(ops[i].phase)
       THEN /\ subscriptions' = FilterOut(subscriptions, ops[i].creator)
            /\ activeStreams' = MapDelete(activeStreams, ops[i].creator)
            /\ totalStreaming' = TotalOf(activeStreams')
            /\ effectPending' = TRUE
            /\ lastEvent' = Event("unsubscribed", ops[i].creator,
                                  ops[i].payload.total_streamed)
       ELSE /\ UNCHANGED <<subscriptions, activeStreams, totalStreaming,
                           effectPending>>
            /\ lastEvent' = Event("unsubscribe_failed", ops[i].creator, 0)
    /\ ops' = [ops EXCEPT ![i] = Idle]
    /\ UNCHANGED <<calls, walletAddress, isLoading, timerArmed, timerSubs, now, store>>
    /\ UNCHANGED <<logVars, sessionVars, simVars>>

\* The armed interval fires: updateStreams over the array it closed over.
Tick ==
    /\ timerArmed
    /\ activeStreams' = updateStreams(timerSubs, now)
    /\ totalStreaming' = TotalOf(activeStreams')
    /\ UNCHANGED <<calls, walletAddress, subscriptions, isLoading, timerArmed,
                   timerSubs, effectPending, now, store, ops, lastEvent>>
    /\ UNCHANGED <<logVars, sessionVars, simVars>>

\* The tick effect re-runs for the changed subscriptions, lines 79-107: the
\* previous run's cleanup clears its interval, then the body runs.
RunEffect ==
    /\ effectPending
    /\ effectPending' = FALSE
    /\ IF Len(subscriptions) = 0
       THEN /\ activeStreams' = EmptyMap
            /\ timerArmed' = FALSE
            /\ timerSubs' = <<>>
       ELSE /\ activeStreams' = updateStreams(subscriptions, now)
            /\ timerArmed' = TRUE
            /\ timerSubs' = subscriptions
    /\ totalStreaming' = TotalOf(activeStreams')
    /\ UNCHANGED <<calls, walletAddress, subscriptions, isLoading, now, store, ops,
                   lastEvent>>
    /\ UNCHANGED <<logVars, sessionVars, simVars>>

Next ==
    \/ AdvanceClock
    \/ WalletCleared
    \/ \E w \in Wallets : WalletSet(w)
    \/ \E c \in Creators, arg \in FlowRateArgs : SubscribeCall(c, arg)
    \/ \E c \in Creators : UnsubscribeCall(c)
    \/ \E i \in Slots : StoreSelect(i)
    \/ \E i \in Slots : StoreUpsert(i)
    \/ \E i \in Slots : StoreUpdate(i)
    \/ \E i \in Slots : StoreFail(i)
    \/ \E i \in Slots : FetchResolve(i)
    \/ \E i \in Slots : SubscribeResolve(i)
    \/ \E i \in Slots : UnsubscribeResolve(i)
    \/ Tick
    \/ RunEffect

Spec == Init /\ [][Next]_vars

\* =================================================== the log history hooks

\* useSessionLogs(maxLogs = 50).
DefaultMaxLogs == 50

\* useLazorWallet's addLog: prev.slice(-50).
WalletLogsKept == 50

\* Appends to the history in a run of LogSpec.
MaxAppends == 52

\* The maxLogs argument of useSessionLogs: a number, or left out.
MaxLogsArgs == {Given(1), Given(2), Omitted}

LogHooks == {"useSessionLogs", "useLazorWallet"}

Max(a, b) == IF a > b THEN a ELSE b
Min(a, b) == IF a < b THEN a ELSE b

\* Array.prototype.slice(start): a negative start counts from the end, and
\* -0 is 0, the start of the array.
Slice(arr, start) ==
    LET from == IF start < 0 THEN Max(Len(arr) + start, 0)
                ELSE Min(start, Len(arr))
    IN  SubSeq(arr, from + 1, Len(arr))

\* useSessionLogs, lines 112 and 122: prev => [...prev.slice(-(maxLogs - 1)), log]
sessionLogsUpdater(prev, m, log) == Slice(prev, -(m - 1)) \o <<log>>

\* useLazorWallet, line 40: prev => [...prev.slice(-50), log]
walletLogsUpdater(prev, log) == Slice(prev, -WalletLogsKept) \o <<log>>

\* The addLog of the hook that keeps the history.
addLogUpdater(prev, log) ==
    IF logHook = "useSessionLogs" THEN sessionLogsUpdater(prev, maxLogs, log)
    ELSE walletLogsUpdater(prev, log)

\* The history after addLog was called for each entry of seq, in order.
RECURSIVE AddAll(_, _)
AddAll(prev, seq) ==
    IF seq = <<>> THEN prev
    ELSE AddAll(addLogUpdater(prev, Head(seq)), Tail(seq))

\* addLog is called for each entry of seq.
Appends(seq) ==
    /\ logs' = AddAll(logs, seq)
    /\ serial' = serial + Len(seq)
    /\ sinceClear' = sinceClear + Len(seq)
    /\ UNCHANGED <<logHook, maxLogs>>

\* The stream hook is not part of this run.
NoStreamHook ==
    /\ walletAddress = NoWallet
    /\ subscriptions = <<>>
    /\ activeStreams = EmptyMap
    /\ totalStreaming = 0
    /\ isLoading = FALSE
    /\ timerArmed = FALSE
    /\ timerSubs = <<>>
    /\ effectPending = FALSE
    /\ now = 0
    /\ store = [k \in {} |-> 0]
    /\ ops = [i \in Slots |-> Idle]
    /\ lastEvent = Event("mount", "-", 0)
    /\ calls = 0

\* An entry of the history in a run of LogSpec stands for its text (which
\* carries the call's timestamp and random ids) by the ordinal of the call
\* that appended it.

\* useSessionLogs.addLog(type), lines 110-113.
addLog ==
    /\ logHook = "useSessionLogs"
    /\ serial < MaxAppends
    /\ Appends(<<serial + 1>>)
    /\ UNCHANGED <<streamVars, now, sessionVars, simVars>>

\* useSessionLogs.addLogRaw(message), lines 120-123.
addLogRaw ==
    /\ logHook = "useSessionLogs"
    /\ serial < MaxAppends
    /\ logs' = sessionLogsUpdater(logs, maxLogs, serial + 1)
    /\ serial' = serial + 1
    /\ sinceClear' = sinceClear + 1
    /\ UNCHANGED <<logHook, maxLogs, streamVars, now, sessionVars, simVars>>

\* useSessionLogs.clearLogs(), lines 128-130.
clearLogs ==
    /\ logHook = "useSessionLogs"
    /\ logs' = <<>>
    /\ sinceClear' = 0
    /\ UNCHANGED <<logHook, maxLogs, serial, streamVars, now, sessionVars, simVars>>

\* useLazorWallet.addLog(type), lines 38-41.
WalletAddLog ==
    /\ logHook = "useLazorWallet"
    /\ serial < MaxAppends
    /\ Appends(<<serial + 1>>)
    /\ UNCHANGED <<streamVars, now, sessionVars, simVars>>

\* ====================================================== the wallet session

\* Log sequences started in a run of SessionSpec: a restore at mount, a
\* connect, a click on a creator's card, a subscribe that settled, a firing
\* of the heartbeat interval (a sequence of one entry).
MaxSeqs == 3

\* Calls of connect that wait for the passkey prompt at the same time.
MaxPrompts == 2

\* The delays of the setTimeout calls, in ms.
RestorePolicyDelay == 300
ConnectPolicyDelay == 400
ConnectPaymasterDelay == 800
CardSessionDelay == 200
CardPaymasterDelay == 500
CardTxDelay == 800
SubscribePaymasterDelay == 300
SubscribeTxDelay == 600

\* generateMockWalletAddress(): a random string of 43 or 44 characters.
Addresses == {"a1", "a2"}

\* interface WalletSession; the empty address stands for a missing one.
WalletSession(a, t) == [address |-> a, credentialId |-> "k", connectedAt |-> t]
NoSessionValue == WalletSession("", 0)

\* The item of localStorage: absent, or a text that JSON.parse accepts (and
\* its value) or rejects.
NoItem == [present |-> FALSE, parses |-> FALSE, value |-> NoSessionValue]
Garbage == [present |-> TRUE, parses |-> FALSE, value |-> NoSessionValue]

\* JSON.stringify(session), stored by localStorage.setItem.
Stringify(v) == [present |-> TRUE, parses |-> TRUE, value |-> v]

\* Faulty variant: the item is left in place.
RemoveItemKeeps(item) == item

\* localStorage.removeItem(STORAGE_KEYS.WALLET)
RemoveItem(item) == NoItem

\* What the key may hold before the first mount: nothing, a text that is no
\* JSON, a JSON without an address, the session of an earlier connect.
InitialItems ==
    {NoItem, Garbage, Stringify(NoSessionValue), Stringify(WalletSession("a1", 0))}

Disconnected == [isConnected |-> FALSE, isConnecting |-> FALSE,
                 address |-> NoWallet, error |-> "null"]

\* Faulty variant: the connected state carries no address.
ConnectedNoAddress(a) == [isConnected |-> TRUE, isConnecting |-> FALSE,
                          address |-> NoWallet, error |-> "null"]

Connected(a) == [isConnected |-> TRUE, isConnecting |-> FALSE,
                 address |-> a, error |-> "null"]

\* An entry of the history in a run of SessionSpec: the type its text was
\* generated for and, as history, the sequence it belongs to.
Entry(type, q) == [type |-> type, seq |-> q]

\* A scheduled setTimeout(() => addLog(type), delay): the idx-th of the
\* sequence q; as history, whether a disconnect has ended the session it was
\* scheduled in.
Timeout(type, q, idx, delay) ==
    [type |-> type, seq |-> q, idx |-> idx, delay |-> delay, ended |-> FALSE]

\* History: a disconnect marks what the session it ends has left pending.
MarkEnded(pending) == {[p EXCEPT !.ended = TRUE] : p \in pending}

\* The mount effect's setTimeout, line 105 (useLazorWallet: line 58).
RestoreTimeouts(q) == {Timeout("policy", q, 1, RestorePolicyDelay)}

\* connect's two setTimeout calls, lines 210-211 (useLazorWallet: 138-139).
ConnectTimeouts(q) ==
    {Timeout("policy", q, 1, ConnectPolicyDelay),
     Timeout("paymaster", q, 2, ConnectPaymasterDelay)}

\* CreatorCard.handleToggle's three setTimeout calls, lines 51-53.
CardTimeouts(q) ==
    {Timeout("session", q, 1, CardSessionDelay),
     Timeout("paymaster", q, 2, CardPaymasterDelay),
     Timeout("tx", q, 3, CardTxDelay)}

\* Faulty variant: the two delays of handleSubscribe are swapped.
SubscribeTimeoutsSwapped(q) ==
    {Timeout("paymaster", q, 1, SubscribeTxDelay),
     Timeout("tx", q, 2, SubscribePaymasterDelay)}

\* Dashboard.handleSubscribe's two setTimeout calls, lines 94-95.
SubscribeTimeouts(q) ==
    {Timeout("paymaster", q, 1, SubscribePaymasterDelay),
     Timeout("tx", q, 2, SubscribeTxDelay)}

\* u was scheduled before t: sequences are scheduled whole, in the order of
\* their numbers.
ScheduledBefore(u, t) ==
    u.seq < t.seq \/ (u.seq = t.seq /\ u.idx < t.idx)

\* The timer initialisation steps of the platform: a callback runs only after
\* every callback that was scheduled before it with a delay equal to or less
\* than its own.  (How late a callback runs is not bounded.)
CanRun(t) ==
    \A u \in timeouts : ~(ScheduledBefore(u, t) /\ u.delay <= t.delay)

\* Index renders Dashboard only while isConnected, Index.tsx lines 16-30.
DashboardMounted ==
    mounted /\ state.isConnected /\ logHook = "useLazorWallet"

\* The page is loaded: the wallet hook mounts with its initial state and its
\* mount effect runs, useLazorAuth lines 91-111 (useLazorWallet: 44-64).
Mount ==
    /\ ~mounted
    /\ mounted' = TRUE
    /\ IF ~storage.present
       THEN UNCHANGED <<state, storage, timeouts, seqs, logVars>>
       ELSE IF ~storage.parses
       THEN /\ storage' = RemoveItem(storage)
            /\ UNCHANGED <<state, timeouts, seqs, logVars>>
       ELSE IF storage.value.address = ""
       THEN UNCHANGED <<state, storage, timeouts, seqs, logVars>>
       ELSE /\ seqs < MaxSeqs
            /\ seqs' = seqs + 1
            /\ state' = Connected(storage.value.address)
            /\ Appends(<<Entry("connect", seqs')>>)
            /\ timeouts' = timeouts \cup RestoreTimeouts(seqs')
            /\ UNCHANGED storage
    /\ UNCHANGED <<prompts, awaiting, streaming, streamVars, now, simVars>>

\* The page is closed or reloaded: the hooks' state, the scheduled callbacks
\* and the pending promises are gone; localStorage stays.
Unload ==
    /\ mounted
    /\ mounted' = FALSE
    /\ state' = Disconnected
    /\ logs' = <<>>
    /\ sinceClear' = 0
    /\ prompts' = 0
    /\ timeouts' = {}
    /\ awaiting' = {}
    /\ streaming' = FALSE
    /\ UNCHANGED <<storage, seqs, logHook, maxLogs, serial, streamVars, now, simVars>>

\* connect() up to its await, lines 128-180 (useLazorWallet: 66-109), as any
\* consumer of the hook may call it.  A browser without PublicKeyCredential
\* makes it throw at line 141, before the await: the catch block then runs
\* as the call's next step.
connect ==
    /\ mounted
    /\ prompts < MaxPrompts
    /\ prompts' = prompts + 1
    /\ state' = [state EXCEPT !.isConnecting = TRUE, !.error = "null"]
    /\ UNCHANGED <<mounted, storage, timeouts, awaiting, streaming, seqs,
                   logVars, streamVars, now, simVars>>

\* A click on a button that calls connect: the buttons are rendered while
\* isConnected is false and are disabled while isConnecting (LandingHero
\* lines 111-112, WalletButton lines 21 and 50-51).
Connect ==
    /\ ~state.isConnected /\ ~state.isConnecting
    /\ connect

\* connect() after its await, with a credential: lines 182-211
\* (useLazorWallet: 111-139).
ConnectSucceeds(a) ==
    /\ prompts > 0
    /\ seqs < MaxSeqs
    /\ prompts' = prompts - 1
    /\ seqs' = seqs + 1
    /\ storage' = Stringify(WalletSession(a, now))
    /\ state' = Connected(a)
    /\ Appends(<<Entry("connect", seqs')>>)
    /\ timeouts' = timeouts \cup ConnectTimeouts(seqs')
    /\ UNCHANGED <<mounted, awaiting, streaming, streamVars, now, simVars>>

\* Faulty variant: the catch block resets the whole state.
CatchUpdaterResets(prev) == [Disconnected EXCEPT !.error = "failed"]

\* The catch block's setState updater, lines 230-234:
\* prev => ({...prev, isConnecting: false, error: errorMessage}), where
\* errorMessage is a string in every branch of lines 217-228.
CatchUpdater(prev) == [prev EXCEPT !.isConnecting = FALSE, !.error = "failed"]

\* connect() after its await, without one (the prompt was cancelled or
\* threw): the catch block, lines 213-235 (useLazorWallet: 141-148).
ConnectFails ==
    /\ prompts > 0
    /\ prompts' = prompts - 1
    /\ state' = CatchUpdater(state)
    /\ UNCHANGED <<mounted, storage, timeouts, awaiting, streaming, seqs,
                   logVars, streamVars, now, simVars>>

\* disconnect(): useLazorAuth lines 244-253 leave the history alone,
\* useLazorWallet lines 151-161 also empty it.  With isConnected false, Index
\* stops rendering Dashboard, whose heartbeat effect is cleaned up.
\* Any consumer of the hook may call it, in any state.
disconnect ==
    /\ mounted
    /\ timeouts' = MarkEnded(timeouts)
    /\ awaiting' = MarkEnded(awaiting)
    /\ storage' = RemoveItem(storage)
    /\ state' = Disconnected
    /\ IF logHook = "useLazorWallet"
       THEN logs' = <<>> /\ sinceClear' = 0
       ELSE UNCHANGED <<logs, sinceClear>>
    /\ streaming' = FALSE
    /\ UNCHANGED <<mounted, prompts, seqs, logHook, maxLogs, serial, streamVars,
                   now, simVars>>

\* A click on the button that calls disconnect, which is rendered while
\* isConnected (WalletButton lines 21 and 35).
Disconnect ==
    /\ state.isConnected
    /\ disconnect

\* A click on the card of a creator that is not subscribed:
\* CreatorCard.handleToggle, lines 45-54, which calls onSubscribe, that is
\* Dashboard.handleSubscribe up to its await (line 92), and schedules its
\* three entries.
ClickSubscribe ==
    /\ DashboardMounted
    /\ seqs < MaxSeqs
    /\ seqs' = seqs + 1
    /\ awaiting' = awaiting \cup {[seq |-> seqs', ended |-> FALSE]}
    /\ timeouts' = timeouts \cup CardTimeouts(seqs')
    /\ UNCHANGED <<mounted, state, storage, prompts, streaming, logVars,
                   streamVars, now, simVars>>

\* Dashboard.handleSubscribe after its await, subscribe having resolved:
\* lines 93-95.  The subscription count of the Dashboard that called it, if
\* still mounted, is positive from now on, which arms its heartbeat interval
\* (lines 78-88).
HandleSubscribeResumes(w) ==
    /\ w \in awaiting
    /\ seqs < MaxSeqs
    /\ seqs' = seqs + 1
    /\ awaiting' = awaiting \ {w}
    /\ Appends(<<Entry("session", seqs')>>)
    /\ timeouts' = timeouts \cup SubscribeTimeouts(seqs')
    /\ streaming' = IF DashboardMounted /\ ~w.ended THEN TRUE ELSE streaming
    /\ UNCHANGED <<mounted, state, storage, prompts, streamVars, now, simVars>>

\* Dashboard.handleSubscribe after its await, subscribe having thrown: the
\* catch block, lines 100-102.
HandleSubscribeCatches(w) ==
    /\ w \in awaiting
    /\ awaiting' = awaiting \ {w}
    /\ UNCHANGED <<mounted, state, storage, prompts, timeouts, streaming, seqs,
                   logVars, streamVars, now, simVars>>

\* The load that Dashboard's useStreamSubscription sends for the connected
\* wallet resolves with at least one active subscription
\* (useStreamSubscription lines 57-75): subscriptions.length is positive from
\* now on, which arms the heartbeat interval (Dashboard lines 78-88).
DashboardLoadResolves ==
    /\ DashboardMounted
    /\ ~streaming
    /\ streaming' = TRUE
    /\ UNCHANGED <<mounted, state, storage, prompts, timeouts, awaiting, seqs,
                   logVars, streamVars, now, simVars>>

\* A scheduled callback runs: () => addLog(type).
TimeoutRuns(t) ==
    /\ t \in timeouts
    /\ CanRun(t)
    /\ timeouts' = timeouts \ {t}
    /\ Appends(<<Entry(t.type, t.seq)>>)
    /\ UNCHANGED <<mounted, state, storage, prompts, awaiting, streaming, seqs,
                   streamVars, now, simVars>>

\* Dashboard's heartbeat interval fires, lines 81-85: addLog of 'session' or
\* 'tx', whichever Math.random() picks.
Heartbeat(type) ==
    /\ streaming
    /\ seqs < MaxSeqs
    /\ seqs' = seqs + 1
    /\ Appends(<<Entry(type, seqs')>>)
    /\ UNCHANGED <<mounted, state, storage, prompts, timeouts, awaiting, streaming,
                   streamVars, now, simVars>>

LogInit ==
    /\ NoStreamHook
    /\ NoSimulation
    /\ logHook \in LogHooks
    /\ \E arg \in MaxLogsArgs :
          maxLogs = IF logHook # "useSessionLogs" THEN 0
                    ELSE IF arg.given THEN arg.value ELSE DefaultMaxLogs
    /\ logs = <<>>
    /\ serial = 0
    /\ sinceClear = 0
    /\ mounted = TRUE
    /\ state = Connected("a1")
    /\ storage = Stringify(WalletSession("a1", 0))
    /\ prompts = 0
    /\ timeouts = {}
    /\ awaiting = {}
    /\ streaming = FALSE
    /\ seqs = 0

LogNext ==
    \/ addLog
    \/ addLogRaw
    \/ clearLogs
    \/ WalletAddLog
    \/ Disconnect

LogSpec == LogInit /\ [][LogNext]_vars

SessionInit ==
    /\ NoStreamHook
    /\ NoSimulation
    /\ logHook \in LogHooks
    /\ maxLogs = IF logHook = "useSessionLogs" THEN DefaultMaxLogs ELSE 0
    /\ logs = <<>>
    /\ serial = 0
    /\ sinceClear = 0
    /\ mounted = FALSE
    /\ state = Disconnected
    /\ storage \in InitialItems
    /\ prompts = 0
    /\ timeouts = {}
    /\ awaiting = {}
    /\ streaming = FALSE
    /\ seqs = 0

SessionNext ==
    \/ Mount
    \/ Unload
    \/ Connect
    \/ \E a \in Addresses : ConnectSucceeds(a)
    \/ ConnectFails
    \/ Disconnect
    \/ ClickSubscribe
    \/ \E w \in awaiting : HandleSubscribeResumes(w)
    \/ \E w \in awaiting : HandleSubscribeCatches(w)
    \/ DashboardLoadResolves
    \/ \E t \in timeouts : TimeoutRuns(t)
    \/ \E type \in {"session", "tx"} : Heartbeat(type)

SessionSpec == SessionInit /\ [][SessionNext]_vars

\* useLazorAuth behind LazorKitProvider, whose context hands connect and
\* disconnect to any consumer: they are called in any state and order.
AuthInit ==
    /\ SessionInit
    /\ logHook = "useSessionLogs"

AuthNext ==
    \/ Mount
    \/ Unload
    \/ connect
    \/ \E a \in Addresses : ConnectSucceeds(a)
    \/ ConnectFails
    \/ disconnect
    \/ \E t \in timeouts : TimeoutRuns(t)

AuthSpec == AuthInit /\ [][AuthNext]_vars

\* =============================================== the paymaster simulation

\* Calls of simulateTransaction in a run of SimSpec; as many may be pending
\* at once.
MaxSimCalls == 2

\* SESSION_KEY_POLICY.maxPerTransaction, 0.001 USDC, in units of 0.000001 USDC.
maxPerTransaction == 1000

\* The least length of a recipient that line 185 accepts.
MinRecipientLength == 32

\* A value of type number: NaN, or a number (an amount in units of
\* 0.000001 USDC).
NaN == [nan |-> TRUE, v |-> 0]
Num(v) == [nan |-> FALSE, v |-> v]

\* The comparisons a <= b and a > b of two numbers: both are false when an
\* operand is NaN.
LessOrEqual(a, b) == ~a.nan /\ ~b.nan /\ a.v <= b.v
GreaterThan(a, b) == ~a.nan /\ ~b.nan /\ a.v > b.v

\* The amounts of the requests: NaN and the numbers around both limits.
Amounts ==
    {NaN} \cup {Num(v) : v \in {-1, 0, 1, maxPerTransaction, maxPerTransaction + 1}}

\* The recipients of the requests, each standing for a string of that length
\* (a Solana address has 32 to 44 characters).
RecipientLengths == {0, MinRecipientLength - 1, MinRecipientLength, 44}

\* interface SimulationRequest (its type and memo are not read).
SimulationRequests ==
    [amount : Amounts, recipient : RecipientLengths]

Undefined == "undefined"
AmountNotPositive == "Amount must be greater than 0"
AmountExceedsLimit == "Amount exceeds policy limit of 0.001 USDC per transaction"
InvalidRecipient == "Invalid recipient address"

\* checkPolicyLimits(amount), lines 140-153.
checkPolicyLimits(amount) ==
    IF LessOrEqual(amount, Num(0))
    THEN [valid |-> FALSE, reason |-> AmountNotPositive]
    ELSE IF GreaterThan(amount, Num(maxPerTransaction))
    THEN [valid |-> FALSE, reason |-> AmountExceedsLimit]
    ELSE [valid |-> TRUE, reason |-> Undefined]

\* The policyViolations array that lines 176-187 build for a request.
ViolationsOf(request) ==
    LET policyCheck == checkPolicyLimits(request.amount)
    IN  (IF ~policyCheck.valid THEN <<policyCheck.reason>> ELSE <<>>)
        \o (IF request.recipient = 0 \/ request.recipient < MinRecipientLength
            THEN <<InvalidRecipient>> ELSE <<>>)

\* The result that lines 194-204 build (the gas estimate and the timestamp
\* are random and are left out).
ResultOf(request) ==
    LET policyViolations == ViolationsOf(request)
    IN  [success |-> Len(policyViolations) = 0,
         isSponsored |-> Len(policyViolations) = 0,
         policyViolations |-> IF Len(policyViolations) > 0
                              THEN <<policyViolations>> ELSE <<>>,
         error |-> IF Len(policyViolations) > 0
                   THEN policyViolations[1] ELSE Undefined]

\* simulateTransaction(request) up to its await, lines 168-174.
simulateTransaction(request) ==
    /\ simCalls < MaxSimCalls
    /\ simCalls' = simCalls + 1
    /\ isSimulating' = TRUE
    /\ simPending' = simPending \cup {[id |-> simCalls', request |-> request]}
    /\ UNCHANGED <<lastSimulation, simReturned>>
    /\ UNCHANGED <<streamVars, now, logVars, sessionVars>>

\* simulateTransaction after its await, lines 176-208, and its finally
\* block, line 223.  Nothing in the try block throws for a request of the
\* declared type, so the catch block (lines 210-220) does not run.  The
\* delay of each call is 300 ms plus a random part of up to 200 ms: calls
\* less than 200 ms apart resume in either order.
SimulationResumes(p) ==
    /\ p \in simPending
    /\ simPending' = simPending \ {p}
    /\ lastSimulation' = <<ResultOf(p.request)>>
    /\ simReturned' = <<[request |-> p.request, result |-> ResultOf(p.request)]>>
    /\ isSimulating' = FALSE
    /\ UNCHANGED simCalls
    /\ UNCHANGED <<streamVars, now, logVars, sessionVars>>

SimInit ==
    /\ NoStreamHook
    /\ NoLogHook
    /\ NoSession
    /\ NoSimulation

SimNext ==
    \/ \E request \in SimulationRequests : simulateTransaction(request)
    \/ \E p \in simPending : SimulationResumes(p)

SimSpec == SimInit /\ [][SimNext]_vars

\* ---------------------------------------------------------------- properties

\* What the accrual formula gives for subscription s at instant t.
AccruedOf(s, t) == s.total_streamed + s.flow_rate * (t - s.started_at)

\* Snapshot m holds, for every active subscription of subs started at or
\* before t with a flow rate >= 0, the formula's value at t.
PublishedMatches(subs, t, m) ==
    \A i \in DOMAIN subs :
        LET s == subs[i]
        IN  (s.is_active /\ t >= s.started_at /\ s.flow_rate >= 0)
                => /\ s.creator_id \in DOMAIN m
                   /\ m[s.creator_id] = AccruedOf(s, t)

\* C1: every run of updateStreams at an instant now (a tick of the interval
\* over the subscriptions it tracks, or the effect's first call over the
\* tracked set) publishes, for each active subscription with
\* now >= started_at and flow_rate >= 0, the value
\* total_streamed + flow_rate * (now - started_at) under its creator.
C1_SnapshotIsSettledPlusRateTimesElapsed ==
    [][ /\ Tick => PublishedMatches(timerSubs, now, activeStreams')
        /\ RunEffect => PublishedMatches(subscriptions, now, activeStreams')
      ]_vars

\* C1 witness: a tracked subscription with a settled amount, a positive rate
\* and time elapsed since its start, published by the current interval.
C1_Witness ==
    /\ timerArmed /\ ~effectPending /\ timerSubs = subscriptions
    /\ \E i \in DOMAIN subscriptions :
          LET s == subscriptions[i]
          IN  /\ s.is_active /\ s.total_streamed > 0 /\ s.flow_rate > 0
              /\ now > s.started_at
              /\ s.creator_id \in DOMAIN activeStreams
              /\ activeStreams[s.creator_id] = AccruedOf(s, now)
              /\ activeStreams[s.creator_id] > s.total_streamed

\* C2: from one tick to the next of the interval of the tracked set, with
\* the clock not behind the earlier tick's instant, no creator's published
\* amount decreases (the subscriptions stay tracked and active: the tracked
\* set did not change since the earlier tick).
C2_MonotoneBetweenTicks ==
    [][ ( /\ Tick
          /\ ~effectPending
          /\ timerSubs = subscriptions
          /\ \E t0 \in Times :
                t0 <= now /\ activeStreams = updateStreams(timerSubs, t0) )
        => \A c \in DOMAIN activeStreams :
              /\ c \in DOMAIN activeStreams'
              /\ activeStreams'[c] >= activeStreams[c]
      ]_vars

\* C3: for a subscription with a positive flow rate, a run of updateStreams
\* at now < started_at publishes exactly the settled amount, and no run
\* publishes less than the settled amount.
ClampedAt(subs, t, m) ==
    \A i \in DOMAIN subs :
        LET s == subs[i]
        IN  (s.is_active /\ s.flow_rate > 0)
                => /\ s.creator_id \in DOMAIN m
                   /\ (t < s.started_at => m[s.creator_id] = s.total_streamed)
                   /\ m[s.creator_id] >= s.total_streamed

C3_SkewClampedToSettled ==
    [][ /\ Tick => ClampedAt(timerSubs, now, activeStreams')
        /\ RunEffect => ClampedAt(subscriptions, now, activeStreams')
      ]_vars

\* C4: for a subscription whose flow rate is zero or negative, every run of
\* updateStreams publishes exactly the settled amount.
ConstantAt(subs, m) ==
    \A i \in DOMAIN subs :
        LET s == subs[i]
        IN  (s.is_active /\ s.flow_rate <= 0)
                => /\ s.creator_id \in DOMAIN m
                   /\ m[s.creator_id] = s.total_streamed

C4_NonPositiveRateIsConstant ==
    [][ /\ Tick => ConstantAt(timerSubs, activeStreams')
        /\ RunEffect => ConstantAt(subscriptions, activeStreams')
      ]_vars

\* The successful completion of unsubscribe in slot i.
UnsubscribeSucceeds(i) == UnsubscribeResolve(i) /\ ops[i].phase = "ok"

\* The successful completion of subscribe in slot i.
SubscribeSucceeds(i) == SubscribeResolve(i) /\ ops[i].phase = "ok"

\* The time passing: the clock advances, the interval fires, the effect runs.
TimePasses == AdvanceClock \/ Tick \/ RunEffect

TrackedFor(w, c) ==
    \E j \in DOMAIN subscriptions :
        subscriptions[j].creator_id = c /\ subscriptions[j].user_wallet = w

\* unsubscribe(c) reads the amount it is going to settle from the snapshot
\* published before the call.
SettlesPublishedAmount ==
    \A c \in Creators :
        (UnsubscribeCall(c) /\ TrackedFor(walletAddress, c)
            /\ c \in DOMAIN activeStreams)
          => /\ ops'[NextSlot].wallet = walletAddress
             /\ ops'[NextSlot].creator = c
             /\ ops'[NextSlot].payload.total_streamed = activeStreams[c]

RoundedToScale(v, a) ==
    /\ v % TotalStreamedScale = 0
    /\ 2 * Abs(v - a) <= TotalStreamedScale
    /\ 2 * Abs(v - a) = TotalStreamedScale => Abs(v) > Abs(a)

C7_NoTickPutsCreatorBack ==
    [][ (Tick /\ lastEvent.kind = "unsubscribed")
        => LET c == lastEvent.creator
           IN  (c \notin TrackedCreators(subscriptions)
                    /\ c \notin DOMAIN activeStreams)
                  => c \notin DOMAIN activeStreams'
      ]_vars

\* The record a subscribe(c, arg) called by wallet w at instant t asks for:
\* the rate given, or 0.00001 (one rate unit) when it is left out.
RequestedRecord(w, c, arg, t) ==
    [user_wallet |-> w, creator_id |-> c,
     flow_rate |-> IF arg.given THEN arg.value ELSE 1,
     is_active |-> TRUE, started_at |-> t, total_streamed |-> 0]

\* The tracked records of creator c.
TrackedRecords(subs, c) ==
    {j \in DOMAIN subs : subs[j].creator_id = c}

\* C8: the store, serving a subscribe(c, rate) called by wallet w at instant
\* t, keeps under (w, c) the record with flow_rate = rate (0.00001 when
\* omitted), is_active = true, started_at = t and total_streamed = 0 and
\* changes no other record; when the subscribe succeeds that record is the
\* tracked subscription of c.
C8_SubscribeUpsertsAndTracks ==
    /\ [][ \A i \in Slots :
             LET k == Key(ops[i].wallet, ops[i].creator)
                 want == RequestedRecord(ops[i].wallet, ops[i].creator,
                                         ops[i].arg, ops[i].at)
             IN  StoreUpsert(i)
                   => /\ ops[i].wallet # NoWallet
                      /\ DOMAIN store' = DOMAIN store \cup {k}
                      /\ store'[k] = want
                      /\ \A x \in DOMAIN store : x # k => store'[x] = store[x]
         ]_vars
    /\ [][ \A i \in Slots :
             LET want == RequestedRecord(ops[i].wallet, ops[i].creator,
                                         ops[i].arg, ops[i].at)
             IN  SubscribeSucceeds(i)
                   => \E j \in DOMAIN subscriptions' :
                         /\ subscriptions'[j] = want
                         /\ TrackedRecords(subscriptions', ops[i].creator) = {j}
         ]_vars

\* C8 witness: a subscribe with the rate left out has succeeded, and the
\* record tracked for its creator is the one the store keeps, at the default
\* rate.
C8_Witness ==
    /\ lastEvent.kind = "subscribed"
    /\ walletAddress # NoWallet
    /\ \E j \in DOMAIN subscriptions :
          LET s == subscriptions[j]
          IN  /\ s.creator_id = lastEvent.creator
              /\ s.user_wallet = walletAddress
              /\ s.flow_rate = 1 /\ s.is_active /\ s.total_streamed = 0
              /\ Key(walletAddress, s.creator_id) \in DOMAIN store
              /\ store[Key(walletAddress, s.creator_id)] = s

\* No two tracked records have the same creator id.
OnePerCreator(subs) ==
    \A i, j \in DOMAIN subs :
        subs[i].creator_id = subs[j].creator_id => i = j

\* C9: the tracked set holds at most one subscription per creator id in
\* every state; a subscribe that succeeds leaves, for its creator, the record
\* the store returned and nothing of the record tracked before, and leaves
\* the other creators' records as they were.
C9_OnePerCreatorReplacedWholesale ==
    /\ [] OnePerCreator(subscriptions)
    /\ [][ \A i \in Slots :
             SubscribeSucceeds(i)
               => /\ \E j \in DOMAIN subscriptions' :
                        /\ TrackedRecords(subscriptions', ops[i].creator) = {j}
                        /\ subscriptions'[j] = ops[i].data
                        /\ subscriptions'[j].total_streamed = 0
                  /\ \A c \in Creators \ {ops[i].creator} :
                        {subscriptions'[j] :
                            j \in TrackedRecords(subscriptions', c)}
                        = {subscriptions[j] :
                            j \in TrackedRecords(subscriptions, c)}
         ]_vars

\* C9 witness: a subscribe has replaced a tracked record that had a settled
\* amount: the tracked record of the creator is the new one, with none.
C9_Witness ==
    /\ lastEvent.kind = "subscribed" /\ lastEvent.detail > 0
    /\ OnePerCreator(subscriptions)
    /\ \E j \in DOMAIN subscriptions :
          /\ subscriptions[j].creator_id = lastEvent.creator
          /\ subscriptions[j].total_streamed = 0

\* The sum of getStreamAmount over the creators of seq.
RECURSIVE SumOfAmounts(_)
SumOfAmounts(seq) ==
    IF seq = <<>> THEN 0
    ELSE getStreamAmount(Head(seq)) + SumOfAmounts(Tail(seq))

\* C10: in every state totalStreaming is the sum of the amounts the snapshot
\* holds for the creators.
C10_TotalIsSumOfSnapshot ==
    totalStreaming = SumOfAmounts(CreatorOrder)

\* C10 witness: two creators stream at once, each with an amount of its own.
C10_Witness ==
    /\ DOMAIN activeStreams = Creators
    /\ \A c \in Creators : activeStreams[c] # 0
    /\ \E c, d \in Creators : activeStreams[c] # activeStreams[d]
    /\ totalStreaming # 0

\* The rows the table keeps for wallet w with is_active set.
StoredActive(st, w) ==
    {st[k] : k \in {x \in DOMAIN st : x[1] = w /\ st[x].is_active}}

\* C11: the read sent when a wallet becomes available returns exactly the
\* active rows stored for that wallet, with their stored started_at,
\* flow_rate and total_streamed; a load that succeeds makes these rows the
\* tracked set; and the effect's first run of updateStreams after the load
\* publishes, for each of them, total_streamed + flow_rate * (now -
\* started_at), not an amount restarted from zero.
C11_LoadSeedsTrackedSetAndFirstSnapshot ==
    /\ [][ \A i \in Slots :
             StoreSelect(i)
               => /\ {ops'[i].data[j] : j \in DOMAIN ops'[i].data}
                        = StoredActive(store, ops[i].wallet)
                  /\ Len(ops'[i].data)
                        = Cardinality(StoredActive(store, ops[i].wallet))
         ]_vars
    /\ [][ \A i \in Slots :
             (FetchResolve(i) /\ ops[i].phase = "ok")
               => subscriptions' = ops[i].data
         ]_vars
    /\ [][ (RunEffect /\ lastEvent.kind = "loaded")
             => \A j \in DOMAIN subscriptions :
                   LET s == subscriptions[j]
                   IN  /\ s.creator_id \in DOMAIN activeStreams'
                       /\ activeStreams'[s.creator_id]
                             = s.total_streamed
                                 + s.flow_rate * (now - s.started_at)
         ]_vars

\* C11 witness: a load has seeded the tracked set with a stored subscription
\* that has a settled amount and started before now, and the snapshot the
\* effect computed after the load is above the settled amount.
C11_Witness ==
    /\ lastEvent.kind = "loaded" /\ ~effectPending
    /\ walletAddress # NoWallet
    /\ \E j \in DOMAIN subscriptions :
          LET s == subscriptions[j]
          IN  /\ s.user_wallet = walletAddress
              /\ s.total_streamed > 0 /\ now > s.started_at
              /\ Key(s.user_wallet, s.creator_id) \in DOMAIN store
              /\ store[Key(s.user_wallet, s.creator_id)] = s
              /\ s.creator_id \in DOMAIN activeStreams
              /\ activeStreams[s.creator_id]
                    = s.total_streamed + s.flow_rate * (now - s.started_at)
              /\ activeStreams[s.creator_id] > s.total_streamed

\* C12: in every state in which the tick effect has run for the current
\* tracked set, no accrual interval is armed and the snapshot map is empty
\* when the tracked set is empty or the wallet session has ended (the wallet
\* identity is null).
C12_NoIntervalWithoutSession ==
    ( /\ ~effectPending
      /\ Len(subscriptions) = 0 \/ walletAddress = NoWallet )
    => (~timerArmed /\ activeStreams = EmptyMap)

\* C13: once no load is in flight and the effect has run, every tracked
\* subscription belongs to the current wallet identity.
C13_TrackedSetBelongsToWallet ==
    ( /\ \A i \in Slots : ops[i].kind # "fetch"
      /\ ~effectPending )
    => \A j \in DOMAIN subscriptions :
          subscriptions[j].user_wallet = walletAddress

\* The call of subscribe or unsubscribe in slot i ends with the store's error.
FailsInSlot(i) ==
    /\ ops[i].phase = "error"
    /\ SubscribeResolve(i) \/ UnsubscribeResolve(i)

\* C19: a call of subscribe or unsubscribe sends exactly one request to the
\* store; a request the store fails leaves the store as it was; and when the
\* call ends with the store's error, it throws to its caller, leaves the
\* tracked set, the snapshot and the total unchanged, and sends no further
\* request.
C19_StoreFailureRethrownNoRetry ==
    /\ [][ (\E c \in Creators :
               UnsubscribeCall(c) \/ \E arg \in FlowRateArgs : SubscribeCall(c, arg))
             => /\ ops[NextSlot] = Idle
                /\ ops'[NextSlot].phase = "sent"
                /\ \A j \in Slots \ {NextSlot} : ops'[j] = ops[j]
         ]_vars
    /\ [][ \A i \in Slots : StoreFail(i) => store' = store ]_vars
    /\ [][ \A i \in Slots :
             FailsInSlot(i)
               => /\ lastEvent'.kind \in {"subscribe_failed", "unsubscribe_failed"}
                  /\ lastEvent'.creator = ops[i].creator
                  /\ subscriptions' = subscriptions
                  /\ activeStreams' = activeStreams
                  /\ totalStreaming' = totalStreaming
                  /\ store' = store
                  /\ ops'[i] = Idle
                  /\ \A j \in Slots \ {i} : ops'[j] = ops[j]
         ]_vars

\* C19 witness: an unsubscribe of a tracked, streaming creator has failed:
\* the creator is still tracked and streaming, its row is still active, and
\* no request is in flight.
C19_Witness ==
    /\ lastEvent.kind = "unsubscribe_failed"
    /\ lastEvent.creator \in TrackedCreators(subscriptions)
    /\ lastEvent.creator \in DOMAIN activeStreams
    /\ timerArmed
    /\ \A i \in Slots : ops[i] = Idle
    /\ Key(walletAddress, lastEvent.creator) \in DOMAIN store
    /\ store[Key(walletAddress, lastEvent.creator)].is_active

\* C14: in every state the history of useSessionLogs has at most maxLogs
\* entries, whatever maxLogs >= 1 it was configured with, and the history of
\* useLazorWallet has at most 50.
C14_HistoryNeverExceedsMaximum ==
    /\ logHook = "useSessionLogs" => (maxLogs >= 1 => Len(logs) <= maxLogs)
    /\ logHook = "useLazorWallet" => Len(logs) <= 50

\* The last min(N, 50) of the entries appended so far, N of them since the
\* last clear, in the order of their calls.
LastFiftySinceClear ==
    LET n == Min(sinceClear, 50)
    IN  [i \in 1..n |-> serial - n + i]

\* C15: with the reference bound of 50 (useSessionLogs with maxLogs = 50,
\* useLazorWallet), the history is in every state exactly the last
\* min(N, 50) entries appended since the last clear, N being their number,
\* in the order of the calls.
C15_HistoryIsLastFiftyInOrder ==
    (logHook = "useLazorWallet" \/ maxLogs = 50) => logs = LastFiftySinceClear

\* The place of a type in a subscribe's sequence (0: not part of one).
PlaceInSequence(type) ==
    CASE type = "session" -> 1
      [] type = "paymaster" -> 2
      [] type = "tx" -> 3
      [] OTHER -> 0

\* C16: in every state, two entries of the history that belong to the same
\* sequence and are both of the types session, paymaster, tx stand in that
\* order (and no such entry occurs twice), whatever entries of other
\* sequences and of the heartbeat stand between them.
C16_SequenceKeepsItsOrder ==
    \A i, j \in DOMAIN logs :
        ( /\ i < j
          /\ logs[i].seq = logs[j].seq
          /\ PlaceInSequence(logs[i].type) > 0
          /\ PlaceInSequence(logs[j].type) > 0 )
        => PlaceInSequence(logs[i].type) < PlaceInSequence(logs[j].type)

\* C16 witness: the history holds the three entries of one sequence in their
\* order, with an entry of another sequence between them.
C16_Witness ==
    \E i, j, k, x \in DOMAIN logs :
        /\ i < j /\ j < k /\ i < x /\ x < k
        /\ logs[i].seq = logs[j].seq /\ logs[j].seq = logs[k].seq
        /\ logs[i].type = "session"
        /\ logs[j].type = "paymaster"
        /\ logs[k].type = "tx"
        /\ logs[x].seq # logs[i].seq

\* C17: the state right after a disconnect has an empty history, with
\* useLazorWallet as with useLazorAuth and useSessionLogs.
C17_DisconnectEmptiesHistory ==
    [][ Disconnect => logs' = <<>> ]_vars

\* C18: no callback that was scheduled with setTimeout before a disconnect
\* runs (and writes its entry) after that disconnect.
C18_NoDeferredAppendAfterDisconnect ==
    [][ \A t \in timeouts : TimeoutRuns(t) => ~t.ended ]_vars

\* C20: a connect that succeeds stores a session with the new address under
\* the wallet key and is connected with it; a mount that finds a stored
\* session with an address is connected with that address, without a prompt
\* and leaving the item as it is; a disconnect leaves no item stored; and a
\* mount that finds no item is disconnected.
C20_SessionPersistsUntilDisconnect ==
    /\ [][ \A a \in Addresses :
             ConnectSucceeds(a)
               => /\ storage'.present /\ storage'.parses
                  /\ storage'.value.address = a
                  /\ state'.isConnected /\ state'.address = a
         ]_vars
    /\ [][ ( /\ Mount
             /\ storage.present /\ storage.parses
             /\ storage.value.address # "" )
           => /\ state'.isConnected /\ ~state'.isConnecting
              /\ state'.address = storage.value.address
              /\ prompts' = 0
              /\ storage' = storage
         ]_vars
    /\ [][ Disconnect => ~storage'.present ]_vars
    /\ [][ (Mount /\ ~storage.present)
           => /\ ~state'.isConnected /\ state'.address = NoWallet
              /\ ~storage'.present
         ]_vars

\* C20 witness: the page was loaded again after a connect, and the mount has
\* restored the connect's address from the stored session: its restore
\* entry is scheduled and no prompt is open.
C20_Witness ==
    /\ mounted /\ state.isConnected /\ prompts = 0
    /\ state.address = "a2"
    /\ storage.present /\ storage.parses
    /\ storage.value.address = state.address
    /\ \E t \in timeouts : t.type = "policy" /\ t.delay = RestorePolicyDelay

\* C21: a connect that fails leaves the hook with isConnecting false and an
\* error message; neither its call nor its failure changes isConnected, the
\* address, the stored item, the history or what is scheduled to be appended.
C21_FailedConnectOnlySetsError ==
    /\ [][ ConnectFails
           => /\ ~state'.isConnecting
              /\ state'.error # "null"
              /\ state'.isConnected = state.isConnected
              /\ state'.address = state.address
              /\ storage' = storage
              /\ logs' = logs /\ serial' = serial
              /\ timeouts' = timeouts
         ]_vars
    /\ [][ connect
           => /\ state'.isConnected = state.isConnected
              /\ state'.address = state.address
              /\ storage' = storage
              /\ logs' = logs /\ serial' = serial
              /\ timeouts' = timeouts
         ]_vars

\* C21 witness: a connect called while a session was connected has failed:
\* the session is as it was, with the error.
C21_Witness ==
    /\ mounted /\ prompts = 0
    /\ state.isConnected /\ state.address \in Addresses
    /\ ~state.isConnecting /\ state.error = "failed"
    /\ storage.present /\ storage.value.address = state.address

\* C22: while the hook is mounted, isConnecting is true exactly when a call
\* of connect is pending, whatever disconnect or other connect ran meanwhile.
C22_ConnectingIffConnectPending ==
    mounted => (state.isConnecting <=> prompts > 0)

\* C27: a hook that disconnect has left disconnected, without a stored
\* session, stays so unless connect is called.  (The state is the one that
\* disconnect sets, and every later call of connect changes it, so that the
\* calls that are pending in it were all started before the disconnect.)
C27_StaysDisconnectedUntilConnect ==
    [][ ( /\ mounted
          /\ state = Disconnected
          /\ ~storage.present
          /\ ~connect )
        => /\ ~state'.isConnected
           /\ state'.address = NoWallet
           /\ ~storage'.present
      ]_vars

\* C28: in every state, isConnected is true exactly when the address is not
\* null.
C28_ConnectedIffAddress ==
    state.isConnected <=> state.address # NoWallet

\* C28 witness: a session is connected, with its address, while a further
\* call of connect is pending.
C28_Witness ==
    /\ mounted /\ prompts > 0
    /\ state.isConnected /\ state.isConnecting
    /\ state.address \in Addresses

\* C29: when the subscribe of a click fails, the history holds no entry of
\* that click and none is left scheduled to be appended.
C29_FailedSubscribeLogsNothing ==
    [][ \A w \in awaiting :
          HandleSubscribeCatches(w)
            => /\ \A t \in timeouts' : t.seq # w.seq
               /\ \A i \in DOMAIN logs' : logs'[i].seq # w.seq
      ]_vars

\* C25: when a load of the current wallet's subscriptions resolves right
\* after a subscribe has resolved, the creator of that subscribe is still in
\* the tracked set.
C25_LoadKeepsResolvedSubscribe ==
    [][ \A i \in Slots :
          ( /\ FetchResolve(i)
            /\ ops[i].wallet = walletAddress
            /\ lastEvent.kind = "subscribed" )
          => lastEvent.creator \in TrackedCreators(subscriptions')
      ]_vars

\* C26: the store's update for an unsubscribe never lowers the total_streamed
\* of a row that an earlier unsubscribe has settled (is_active false).
C26_SettledAmountNeverLowered ==
    [][ \A i \in Slots :
          StoreUpdate(i)
            => \A k \in DOMAIN store :
                  ~store[k].is_active
                    => store'[k].total_streamed >= store[k].total_streamed
      ]_vars

\* 0 < amount <= maxPerTransaction, which no NaN satisfies.
WithinPolicy(amount) ==
    ~amount.nan /\ 0 < amount.v /\ amount.v <= maxPerTransaction

\* C23: the result a call of simulateTransaction returns has success true
\* exactly when 0 < amount <= maxPerTransaction and the recipient has at least
\* 32 characters, and isSponsored equal to success; when it fails, its
\* policyViolations list the violation of the amount (if any) and then that
\* of the recipient (if any), and its error is the first of them; and
\* checkPolicyLimits(amount).valid is true exactly when
\* 0 < amount <= maxPerTransaction.
C23_SimulationFollowsPolicy ==
    simReturned # <<>> =>
        LET request == simReturned[1].request
            result == simReturned[1].result
            amountOk == WithinPolicy(request.amount)
            recipientOk == request.recipient >= 32
        IN  /\ result.success <=> (amountOk /\ recipientOk)
            /\ result.isSponsored = result.success
            /\ ~result.success =>
                  /\ result.policyViolations # <<>>
                  /\ LET all == result.policyViolations[1]
                     IN  /\ Len(all) = (IF amountOk THEN 0 ELSE 1)
                                       + (IF recipientOk THEN 0 ELSE 1)
                         /\ ~amountOk =>
                               all[1] \in {AmountNotPositive, AmountExceedsLimit}
                         /\ ~recipientOk => all[Len(all)] = InvalidRecipient
                         /\ result.error = all[1]
            /\ checkPolicyLimits(request.amount).valid <=> amountOk

\* C24: isSimulating is true exactly when a call of simulateTransaction is
\* pending.
C24_SimulatingIffCallPending ==
    isSimulating <=> simPending # {}

====
